---- MODULE Spec2Model ----
(***************************************************************************)
(* Savings tracker backend: the recurring-transaction scheduler            *)
(* (backend/scheduler.js), the pot / transaction REST handlers             *)
(* (backend/routes.js) and the notification collaborator                   *)
(* (backend/notifications.js), as a state machine over the SQLite tables   *)
(* savings_pots, transactions and processed_recurring.                     *)
(*                                                                         *)
(* Dates are local calendar days, numbered from 2024-01-01 (day 0).        *)
(* Every `await` of the scheduler is a separate step, so that other        *)
(* cycles, requests and a process crash can interleave between two SQL     *)
(* statements exactly where the event loop allows it.                      *)
(***************************************************************************)
EXTENDS Integers, Sequences, FiniteSets, TLC

\* ------------------------------------------------------------------ bounds
MaxPosts == 2       \* transactions POST /transactions may create
MaxRequests == 3    \* REST requests that change the database
MaxAuto == 3        \* transactions the scheduler may create
MaxDays == 1        \* midnights the clock may pass
MaxFaults == 1      \* storage statements that may be rejected
MaxCrashes == 1     \* process crashes / restarts
MaxRuns == 2        \* calls of runProcessingCycle
MaxInits == 2       \* calls of initializeScheduler after a start
MaxMonthsAhead == 3 \* largest monthsAhead handed to calculateProjection
MaxBack == 1        \* most negative monthsAhead handed to calculateProjection
MaxWeeks == 5       \* weeks handed to addWeeksFromOriginal
MaxCalendarDays == 47 \* midnights the clock may pass when every day has its tick

Users == {"alex", "beth"}
PotIds == {1, 2}
Slots == {1, 2}
Amounts == {1, 2}
PotSeeds == {5}

\* ---------------------------------------------------------------- calendar
IsLeap(y) == (y % 4 = 0 /\ y % 100 /= 0) \/ y % 400 = 0

DaysInMonth(y, m) ==
  IF m = 2 THEN (IF IsLeap(y) THEN 29 ELSE 28)
  ELSE IF m \in {4, 6, 9, 11} THEN 30 ELSE 31

RECURSIVE YmdFrom(_, _, _)
YmdFrom(y, m, r) ==
  IF r < DaysInMonth(y, m)
  THEN [y |-> y, m |-> m, d |-> r + 1]
  ELSE YmdFrom(IF m = 12 THEN y + 1 ELSE y, IF m = 12 THEN 1 ELSE m + 1,
               r - DaysInMonth(y, m))

\* Calendar date (year, month, day of month) of day number n.
DateOf(n) == YmdFrom(2024, 1, n)

\* Date.getDay(): 0 = Sunday .. 6 = Saturday; 2024-01-01 was a Monday.
getDayOfWeek(n) == (n + 1) % 7

\* Date.getDate(): 1..31.
getDayOfMonth(n) == DateOf(n).d

\* instanceDate.toISOString().split('T')[0]: the YYYY-MM-DD key of a day.
ISODate(n) == LET t == DateOf(n) IN <<t.y, t.m, t.d>>

Feb15 == 31 + 14            \* 2024-02-15, a Thursday
Mar08 == 31 + 29 + 7        \* 2024-03-08, a Friday
Mar15 == 31 + 29 + 14       \* 2024-03-15, a Friday
StartDay == Mar15
AnchorDays == {Feb15, Mar08}

\* Recurring rules a ledger may hold when the scheduler is observed; each
\* is a row POST /transactions creates.  On StartDay (Friday the 15th) rule 1
\* is due by its day of month, rule 2 by its weekday, rule 3 by its day of
\* month (it carries both flags); rule 4 is due the day after, by its weekday.
Mar09 == Mar08 + 1          \* 2024-03-09, a Saturday
RuleCandidates ==
  << [user |-> "alex", pot |-> 1, amount |-> 1, date |-> Feb15, monthly |-> 1, weekly |-> 0],
     [user |-> "alex", pot |-> 1, amount |-> 2, date |-> Mar08, monthly |-> 0, weekly |-> 1],
     [user |-> "beth", pot |-> 2, amount |-> 3, date |-> Feb15, monthly |-> 1, weekly |-> 1],
     [user |-> "beth", pot |-> 2, amount |-> 4, date |-> Mar09, monthly |-> 0, weekly |-> 1] >>

\* ------------------------------------------------------------------- state
VARIABLES
  clock,             \* the server's current local day
  pots,              \* savings_pots: pot id -> row, or NoPot
  potSeed,           \* history: current_total each pot was created with
  txs,               \* transactions: tx id -> row, or NoTx
  origin,            \* history: rule and day a row was materialized for
  markers,           \* processed_recurring rows
  nextId,            \* uuidv4() of the REST handlers: next fresh transaction id
  nextAuto,          \* uuidv4() of the scheduler: next fresh transaction id
  cyc,               \* per slot: one invocation of runProcessingCycle
  listening,         \* the server process is up (app.listen called back)
  schedulerRunning,  \* scheduler.js module flag
  jobs,              \* tasks cron.schedule created: expression given / scheduled
  inits,             \* calls of initializeScheduler since the last start
  faults,            \* rejected storage statements so far
  crashes,           \* crashes so far
  lastRun,           \* history: the last cycle that ran alone and clean
  crashInfo,         \* history: what the last crash interrupted
  ticked,            \* the cron tasks that have fired today
  runs,              \* calls of runProcessingCycle so far
  requests,          \* REST requests served so far
  client,            \* the browser: the last computation of projections.ts
  potEdit            \* the PUT /pots/:id request in flight, or NoEdit

vars == <<clock, pots, potSeed, txs, origin, markers, nextId, nextAuto, cyc, listening,
          schedulerRunning, jobs, inits, faults, crashes, lastRun, crashInfo,
          ticked, runs, requests, client, potEdit>>

dbVars == <<pots, potSeed, txs, origin, markers, nextId, nextAuto>>
schedVars == <<listening, schedulerRunning, jobs, inits>>

\* Every handler that writes: counted against MaxRequests.
Served == requests < MaxRequests /\ requests' = requests + 1

NoPot == [user |-> "", total |-> 0]
NoTx == [user |-> "", pot |-> 0, amount |-> 0, date |-> 0, monthly |-> 0, weekly |-> 0]
NoOrigin == [rule |-> 0, day |-> -1, credited |-> FALSE]
NoRun == [day |-> -1, preM |-> {}, preT |-> {}, list |-> <<>>]
NoCrash == [day |-> -1, pending |-> {}, completed |-> {}]

TxIds == 1..(Len(RuleCandidates) + MaxAuto)

IdleCycle ==
  [pc |-> "idle", today |-> 0, list |-> <<>>, idx |-> 0, newId |-> 0,
   processed |-> <<>>, errors |-> <<>>, users |-> <<>>, nidx |-> 0,
   sent |-> <<>>, results |-> <<>>, faulted |-> {}, alone |-> TRUE,
   preM |-> {}, preT |-> {}]

ExistingTx == {t \in TxIds : txs[t] /= NoTx}
ExistingPots == {p \in PotIds : pots[p] /= NoPot}

\* ------------------------------------------------------- REST handlers
\* POST /pots: the pot starts with the balance the request gives.
PostPot(u, seed) ==
  /\ listening /\ Served
  /\ \E p \in PotIds :
       /\ pots[p] = NoPot
       /\ \A q \in PotIds : q < p => pots[q] /= NoPot
       /\ pots' = [pots EXCEPT ![p] = [user |-> u, total |-> seed]]
       /\ potSeed' = [potSeed EXCEPT ![p] = seed]
  /\ lastRun' = NoRun /\ crashInfo' = NoCrash
  /\ UNCHANGED <<clock, client, potEdit, txs, origin, markers, nextId, nextAuto, cyc, schedVars,
                 faults, crashes, ticked, runs>>

\* POST /transactions: insert the row, then add its amount to the pot.
PostTx(u, p, amount, date, m, w) ==
  /\ listening /\ Served
  /\ p \in ExistingPots /\ pots[p].user = u
  /\ nextId <= MaxPosts /\ nextId <= Len(RuleCandidates)
  /\ txs' = [txs EXCEPT ![nextId] =
               [user |-> u, pot |-> p, amount |-> amount, date |-> date,
                monthly |-> IF m THEN 1 ELSE 0, weekly |-> IF w THEN 1 ELSE 0]]
  /\ nextId' = nextId + 1
  /\ pots' = [pots EXCEPT ![p].total = @ + amount]
  /\ lastRun' = NoRun /\ crashInfo' = NoCrash
  /\ UNCHANGED <<clock, client, potEdit, potSeed, origin, markers, nextAuto, cyc, schedVars,
                 faults, crashes, ticked, runs>>

\* Faulty variant of AddToPot: the UPDATE has no WHERE clause.
AddToPot_everyPot(ps, p, delta) ==
  [q \in PotIds |-> IF ps[q] /= NoPot THEN [ps[q] EXCEPT !.total = @ + delta] ELSE ps[q]]

\* UPDATE savings_pots SET current_total = current_total + ? WHERE id = ?
AddToPot(ps, p, delta) ==
  IF p \in PotIds /\ ps[p] /= NoPot THEN [ps EXCEPT ![p].total = @ + delta] ELSE ps

\* A request-body field: {} when the field is absent, {v} when it is v.
Given(f) == f /= {}
ValueOf(f) == CHOOSE v \in f : TRUE
Optional(S) == {{}} \cup {{v} : v \in S}

\* PUT /transactions/:id: absent fields keep the stored value; the amount
\* difference goes to the pot the row had before the edit.
PutTx(u, id, potIn, amountIn, dateIn, mIn, wIn) ==
  /\ listening /\ Served
  /\ txs[id] /= NoTx /\ txs[id].user = u
  /\ LET existing == txs[id]
         newAmount == IF Given(amountIn) THEN ValueOf(amountIn) ELSE existing.amount
         amountDiff == newAmount - existing.amount
     IN /\ txs' = [txs EXCEPT ![id] =
                     [user |-> existing.user,
                      pot |-> IF Given(potIn) THEN ValueOf(potIn) ELSE existing.pot,
                      amount |-> newAmount,
                      date |-> IF Given(dateIn) THEN ValueOf(dateIn) ELSE existing.date,
                      monthly |-> IF Given(mIn) THEN (IF ValueOf(mIn) THEN 1 ELSE 0)
                                  ELSE existing.monthly,
                      weekly |-> IF Given(wIn) THEN (IF ValueOf(wIn) THEN 1 ELSE 0)
                                 ELSE existing.weekly]]
        /\ pots' = IF amountDiff /= 0 THEN AddToPot(pots, existing.pot, amountDiff)
                   ELSE pots
  /\ lastRun' = NoRun /\ crashInfo' = NoCrash
  /\ UNCHANGED <<clock, client, potEdit, potSeed, origin, markers, nextId, nextAuto, cyc, schedVars,
                 faults, crashes, ticked, runs>>

\* DELETE /transactions/:id: subtract the amount from the row's pot, delete it.
DeleteTx(u, id) ==
  /\ listening /\ Served
  /\ txs[id] /= NoTx /\ txs[id].user = u
  /\ pots' = AddToPot(pots, txs[id].pot, 0 - txs[id].amount)
  /\ txs' = [txs EXCEPT ![id] = NoTx]
  /\ lastRun' = NoRun /\ crashInfo' = NoCrash
  /\ UNCHANGED <<clock, client, potEdit, potSeed, origin, markers, nextId, nextAuto, cyc, schedVars,
                 faults, crashes, ticked, runs>>

\* No PUT /pots/:id request is between its SELECT and its UPDATE.
NoEdit == [pot |-> 0, existingPot |-> NoPot, currentTotal |-> {}]

\* PUT /pots/:id, first await: SELECT the caller's pot (404 when not found).
PutPotRead(u, id, currentTotalIn) ==
  /\ listening /\ Served
  /\ potEdit = NoEdit
  /\ pots[id] /= NoPot /\ pots[id].user = u
  /\ potEdit' = [pot |-> id, existingPot |-> pots[id], currentTotal |-> currentTotalIn]
  /\ UNCHANGED <<clock, client, dbVars, cyc, schedVars, faults, crashes, lastRun,
                 crashInfo, ticked, runs>>

\* PUT /pots/:id, second await: UPDATE every column, current_total with the
\* body's value or, when the body has none, with the value the SELECT returned.
PutPotWrite ==
  /\ listening /\ potEdit /= NoEdit
  /\ pots' = [pots EXCEPT ![potEdit.pot].total =
                IF Given(potEdit.currentTotal) THEN ValueOf(potEdit.currentTotal)
                ELSE potEdit.existingPot.total]
  /\ potEdit' = NoEdit
  /\ lastRun' = NoRun /\ crashInfo' = NoCrash
  /\ UNCHANGED <<clock, client, potSeed, txs, origin, markers, nextId, nextAuto, cyc,
                 schedVars, faults, crashes, ticked, runs, requests>>

\* ------------------------------------------------------------- scheduler
\* Faulty variant of hasBeenProcessed: the lookup matches the wrong column.
hasBeenProcessed_wrongColumn(originalTransactionId, instanceDate) ==
  \E k \in markers : /\ k.tx = originalTransactionId
                     /\ k.date = ISODate(instanceDate)

\* hasBeenProcessed: a processed_recurring row for (rule, date string) exists.
hasBeenProcessed(originalTransactionId, instanceDate) ==
  \E k \in markers : /\ k.rule = originalTransactionId
                     /\ k.date = ISODate(instanceDate)

\* markAsProcessed: the processed_recurring row it inserts.
markAsProcessed(originalTransactionId, instanceDate, newTransactionId) ==
  [rule |-> originalTransactionId, date |-> ISODate(instanceDate),
   tx |-> newTransactionId]

\* One row of the scheduler's SELECT ... WHERE repeat_monthly = 1 OR repeat_weekly = 1.
RuleRow(t) ==
  [id |-> t, user_id |-> txs[t].user, pot_id |-> txs[t].pot, amount |-> txs[t].amount,
   date |-> txs[t].date, repeat_monthly |-> txs[t].monthly,
   repeat_weekly |-> txs[t].weekly]

IsRecurring(t) ==
  /\ txs[t] /= NoTx
  /\ txs[t].monthly = 1 \/ txs[t].weekly = 1
  /\ txs[t].pot \in ExistingPots          \* JOIN savings_pots

recurringTransactions ==
  LET ids == [i \in TxIds |-> i]
      keep(i) == IsRecurring(i)
  IN [k \in 1..Len(SelectSeq(ids, keep)) |-> RuleRow(SelectSeq(ids, keep)[k])]

\* shouldProcess of one loop iteration: the weekly test, overwritten by the
\* monthly test when the monthly flag is set.
shouldProcess(recurring, today) ==
  LET weekly == IF recurring.repeat_weekly = 1
                THEN getDayOfWeek(today) = getDayOfWeek(recurring.date)
                ELSE FALSE
  IN IF recurring.repeat_monthly = 1
     THEN getDayOfMonth(today) = getDayOfMonth(recurring.date)
     ELSE weekly

\* Index of the first rule from i on that is due today (Len + 1: none).
NextDue(list, i, today) ==
  LET due == {j \in i..Len(list) : shouldProcess(list[j], today)}
  IN IF due = {} THEN Len(list) + 1 ELSE CHOOSE j \in due : \A k \in due : j <= k

\* Faulty variant of byUser: one notification per processed entry, not per user.
byUser_perEntry(processed) == [i \in 1..Len(processed) |-> processed[i].userId]

\* notifyProcessedTransactions groups the processed entries by userId:
\* the users in the order of their first entry.
RECURSIVE byUser(_)
byUser(processed) ==
  IF processed = <<>> THEN <<>>
  ELSE LET n == Len(processed)
           front == byUser(SubSeq(processed, 1, n - 1))
           u == processed[n].userId
       IN IF \E i \in 1..Len(front) : front[i] = u THEN front ELSE Append(front, u)

\* The for-loop of processRecurringTransactions from index i: rules that are
\* not due are skipped without awaiting; the loop stops at the next await
\* (hasBeenProcessed), or ends, and then runProcessingCycle calls
\* sendNotification for the first user, or completes when nothing was processed.
ContinueLoop(cy, i) ==
  LET j == NextDue(cy.list, i, cy.today)
      us == byUser(cy.processed)
  IN IF j <= Len(cy.list)
     THEN [cy EXCEPT !.pc = "hasBeenProcessed", !.idx = j]
     ELSE IF us = <<>>
          THEN [cy EXCEPT !.pc = "done", !.idx = j]
          ELSE [cy EXCEPT !.pc = "sendNotification", !.idx = j, !.users = us,
                          !.nidx = 1, !.sent = <<us[1]>>]

\* Faulty variant of OnRuleError: the error ends the loop (a catch around the loop).
OnRuleError_abort(cy) ==
  ContinueLoop([cy EXCEPT !.errors = Append(@, cy.list[cy.idx].id)], Len(cy.list) + 1)

\* catch of one loop iteration: record the rule's id, go on with the next rule.
OnRuleError(cy) ==
  ContinueLoop([cy EXCEPT !.errors = Append(@, cy.list[cy.idx].id)], cy.idx + 1)

\* A storage statement of the current rule is rejected: the catch runs.
\* (faulted is history: the rules a statement was rejected for.)
Reject(cy) == OnRuleError([cy EXCEPT !.faulted = @ \cup {cy.list[cy.idx].id}])

\* A storage statement may be rejected (ok = FALSE), MaxFaults times in all.
Outcome(ok) == ok \/ faults < MaxFaults
Faulted(ok) == faults' = IF ok THEN faults ELSE faults + 1

InFlight(c) == cyc[c].pc /= "idle"

\* runProcessingCycle is called (by a cron task or by a caller of the
\* module), for at most limit calls in all.
BeginUpTo(c, limit) ==
  /\ cyc[c].pc = "idle"
  /\ runs < limit /\ runs' = runs + 1
  /\ \A d \in Slots : d < c => InFlight(d)
  /\ LET solo == \A d \in Slots : ~InFlight(d)
     IN cyc' = [d \in Slots |->
                  IF d = c
                  THEN [IdleCycle EXCEPT !.pc = "getAllRows", !.today = clock,
                                         !.alone = solo, !.preM = markers,
                                         !.preT = ExistingTx]
                  ELSE [cyc[d] EXCEPT !.alone = @ /\ ~InFlight(d)]]

Begin(c) == BeginUpTo(c, MaxRuns)

\* A scheduled cron task fires: the daily job calls runProcessingCycle.
CronTickUpTo(c, j, limit) ==
  /\ listening /\ j \in 1..Len(jobs) /\ j \notin ticked
  /\ ticked' = ticked \cup {j}
  /\ BeginUpTo(c, limit)
  /\ UNCHANGED <<clock, client, potEdit, dbVars, schedVars, faults, crashes, lastRun, crashInfo,
                 requests>>

CronTick(c, j) == CronTickUpTo(c, j, MaxRuns)

\* runProcessingCycle called out of band (it is exported by the module).
ManualRun(c) ==
  /\ listening
  /\ Begin(c)
  /\ UNCHANGED <<clock, client, potEdit, dbVars, schedVars, faults, crashes, lastRun, crashInfo,
                 ticked, requests>>

\* Frame of a scheduler step that touches only its cycle (and the fault count).
CycleFrame ==
  UNCHANGED <<clock, client, potEdit, schedVars, crashes, lastRun, crashInfo, ticked, runs, requests>>

\* await getAllRows(...): the rules are loaded; a rejection is caught by the
\* outer try, which records an error without a rule id and skips the loop.
GetAllRows(c, ok) ==
  /\ cyc[c].pc = "getAllRows" /\ Outcome(ok) /\ Faulted(ok)
  /\ cyc' = [cyc EXCEPT ![c] =
       IF ok THEN ContinueLoop([@ EXCEPT !.list = recurringTransactions], 1)
       ELSE [@ EXCEPT !.pc = "done", !.errors = Append(@, 0)]]
  /\ UNCHANGED dbVars /\ CycleFrame

\* await hasBeenProcessed(recurring.id, today); when no marker is found the
\* new transaction id is drawn and the INSERT is issued.
HasBeenProcessed(c, ok) ==
  /\ cyc[c].pc = "hasBeenProcessed" /\ Outcome(ok) /\ Faulted(ok)
  /\ LET cy == cyc[c]
         recurring == cy.list[cy.idx]
     IN IF ~ok
        THEN /\ cyc' = [cyc EXCEPT ![c] = Reject(cy)]
             /\ UNCHANGED nextAuto
        ELSE IF hasBeenProcessed(recurring.id, cy.today)
        THEN /\ cyc' = [cyc EXCEPT ![c] = ContinueLoop(cy, cy.idx + 1)]
             /\ UNCHANGED nextAuto
        ELSE /\ nextAuto <= Len(RuleCandidates) + MaxAuto
             /\ cyc' = [cyc EXCEPT ![c] = [cy EXCEPT !.pc = "insert", !.newId = nextAuto]]
             /\ nextAuto' = nextAuto + 1
  /\ UNCHANGED <<pots, potSeed, txs, origin, markers, nextId>> /\ CycleFrame

\* await runQuery(INSERT INTO transactions ...): the materialized row, with
\* both recurring flags 0 and today's date.
InsertTransaction(c, ok) ==
  /\ cyc[c].pc = "insert" /\ Outcome(ok) /\ Faulted(ok)
  /\ LET cy == cyc[c]
         recurring == cy.list[cy.idx]
     IN IF ok
        THEN /\ txs' = [txs EXCEPT ![cy.newId] =
                          [user |-> recurring.user_id, pot |-> recurring.pot_id,
                           amount |-> recurring.amount, date |-> cy.today,
                           monthly |-> 0, weekly |-> 0]]
             /\ origin' = [origin EXCEPT ![cy.newId] =
                              [rule |-> recurring.id, day |-> cy.today,
                               credited |-> FALSE]]
             /\ cyc' = [cyc EXCEPT ![c].pc = "update"]
        ELSE /\ cyc' = [cyc EXCEPT ![c] = Reject(cy)]
             /\ UNCHANGED <<txs, origin>>
  /\ UNCHANGED <<pots, potSeed, markers, nextId, nextAuto>> /\ CycleFrame

\* await runQuery(UPDATE savings_pots SET current_total = current_total + ?).
UpdatePotTotal(c, ok) ==
  /\ cyc[c].pc = "update" /\ Outcome(ok) /\ Faulted(ok)
  /\ LET cy == cyc[c]
         recurring == cy.list[cy.idx]
     IN IF ok
        THEN /\ pots' = AddToPot(pots, recurring.pot_id, recurring.amount)
             /\ origin' = [origin EXCEPT ![cy.newId].credited = TRUE]
             /\ cyc' = [cyc EXCEPT ![c].pc = "markAsProcessed"]
        ELSE /\ cyc' = [cyc EXCEPT ![c] = Reject(cy)]
             /\ UNCHANGED <<pots, origin>>
  /\ UNCHANGED <<potSeed, txs, markers, nextId, nextAuto>> /\ CycleFrame

\* await markAsProcessed(recurring.id, today, newTransactionId).
MarkAsProcessed(c, ok) ==
  /\ cyc[c].pc = "markAsProcessed" /\ Outcome(ok) /\ Faulted(ok)
  /\ LET cy == cyc[c]
         recurring == cy.list[cy.idx]
     IN IF ok
        THEN /\ markers' = markers \cup
                           {markAsProcessed(recurring.id, cy.today, cy.newId)}
             /\ cyc' = [cyc EXCEPT ![c].pc = "getRow"]
        ELSE /\ cyc' = [cyc EXCEPT ![c] = Reject(cy)]
             /\ UNCHANGED markers
  /\ UNCHANGED <<pots, potSeed, txs, origin, nextId, nextAuto>> /\ CycleFrame

\* await getRow(SELECT current_total ...), then processed.push(...).
GetUpdatedPot(c, ok) ==
  /\ cyc[c].pc = "getRow" /\ Outcome(ok) /\ Faulted(ok)
  /\ LET cy == cyc[c]
         recurring == cy.list[cy.idx]
         entry == [transactionId |-> cy.newId, originalId |-> recurring.id,
                   userId |-> recurring.user_id, potId |-> recurring.pot_id,
                   amount |-> recurring.amount,
                   newTotal |-> IF recurring.pot_id \in ExistingPots
                                THEN pots[recurring.pot_id].total ELSE 0]
     IN cyc' = [cyc EXCEPT ![c] =
          IF ok THEN ContinueLoop([cy EXCEPT !.processed = Append(@, entry)], cy.idx + 1)
          ELSE Reject(cy)]
  /\ UNCHANGED dbVars /\ CycleFrame

\* Results of sendNotification (notifications.js): delivered; skipped
\* because notifications are disabled or the user has no service; or the
\* Home Assistant call failed (status outside 2xx, or a request error).
NotifyOutcomes == {"success", "skipped", "failed"}

\* Faulty variant of NotificationRejects: a failed Home Assistant call rejects.
NotificationRejects_onFailure(outcome) == outcome = "failed"

\* Whether the promise sendNotification returns rejects: every failure path
\* of callHomeAssistantService resolves with success: false.
NotificationRejects(outcome) == FALSE

\* await sendNotification(userId, title, message) settles; the for-loop of
\* notifyProcessedTransactions calls it for the next user, or the cycle ends.
SendNotification(c, outcome) ==
  /\ cyc[c].pc = "sendNotification"
  /\ LET cy == [cyc[c] EXCEPT !.results = Append(@, outcome)]
     IN cyc' = [cyc EXCEPT ![c] =
          IF NotificationRejects(outcome)
          THEN [cy EXCEPT !.pc = "rejected"]
          ELSE IF cy.nidx < Len(cy.users)
          THEN [cy EXCEPT !.nidx = @ + 1, !.sent = Append(@, cy.users[cy.nidx + 1])]
          ELSE [cy EXCEPT !.pc = "done", !.nidx = @ + 1]]
  /\ UNCHANGED <<clock, client, potEdit, dbVars, schedVars, faults, crashes, lastRun, crashInfo,
                 ticked, runs, requests>>

\* runProcessingCycle returns its results (or its promise rejects and the
\* cron callback logs the error).
Finish(c) ==
  /\ cyc[c].pc \in {"done", "rejected"}
  /\ lastRun' = IF cyc[c].pc = "done" /\ cyc[c].alone /\ cyc[c].errors = <<>>
                THEN [day |-> cyc[c].today, preM |-> cyc[c].preM,
                      preT |-> cyc[c].preT, list |-> cyc[c].list]
                ELSE NoRun
  /\ crashInfo' = NoCrash
  /\ cyc' = [cyc EXCEPT ![c] = IdleCycle]
  /\ UNCHANGED <<clock, client, potEdit, dbVars, schedVars, faults, crashes, ticked, runs, requests>>

\* ------------------------------------------------- start-up, cron, crash
DefaultCron == "0 8 * * *"      \* default parameter; server.js without config
EnvCrons == {"", "0 6 * * *", "*/5 * * * *", "every day at 8"}

\* cron.validate: the well-formed expressions among those configured.
cronValidate(cronExpression) ==
  cronExpression \in {"0 8 * * *", "0 6 * * *", "*/5 * * * *"}

\* The expression initializeScheduler schedules for the one it is given.
scheduledExpression(cronExpression) ==
  IF ~cronValidate(cronExpression) THEN "0 6 * * *" ELSE cronExpression

\* initializeScheduler(cronExpression): no-op while the flag is set;
\* otherwise cron.schedule creates a task and the flag is set.
initializeScheduler(cronExpression) ==
  IF schedulerRunning
  THEN UNCHANGED <<schedulerRunning, jobs>>
  ELSE /\ jobs' = Append(jobs, [given |-> cronExpression,
                             cron |-> scheduledExpression(cronExpression)])
       /\ schedulerRunning' = TRUE

\* app.listen callback of server.js: SCHEDULER_ENABLED, SCHEDULER_CRON.
StartServer(schedulerEnabled, envCron) ==
  /\ ~listening
  /\ listening' = TRUE
  /\ IF schedulerEnabled
     THEN /\ initializeScheduler(IF envCron /= "" THEN envCron ELSE "0 8 * * *")
          /\ inits' = inits + 1
     ELSE UNCHANGED <<schedulerRunning, jobs, inits>>
  /\ UNCHANGED <<clock, client, potEdit, dbVars, cyc, faults, crashes, lastRun, crashInfo, ticked,
                 runs, requests>>

\* A later call of the exported initializeScheduler.
InitializeScheduler(cronExpression) ==
  /\ listening /\ inits < MaxInits
  /\ inits' = inits + 1
  /\ initializeScheduler(cronExpression)
  /\ UNCHANGED <<clock, client, potEdit, dbVars, cyc, listening, faults, crashes, lastRun,
                 crashInfo, ticked, runs, requests>>

\* stopScheduler(): clears the flag only.
StopScheduler ==
  /\ listening /\ schedulerRunning
  /\ schedulerRunning' = FALSE
  /\ UNCHANGED <<clock, client, potEdit, dbVars, cyc, listening, jobs, inits, faults, crashes,
                 lastRun, crashInfo, ticked, runs, requests>>

\* Midnight passes, up to the day last.
AdvanceDayUntil(last) ==
  /\ clock < last
  /\ clock' = clock + 1
  /\ ticked' = {}
  /\ UNCHANGED <<client, potEdit, dbVars, cyc, schedVars, faults, crashes, lastRun, crashInfo, runs,
                 requests>>

\* Midnight passes.
AdvanceDay == AdvanceDayUntil(StartDay + MaxDays)

\* History for a crash that interrupts a single cycle inside its rule loop:
\* the rules that cycle had completed and the due rules it had not.
CrashRecord ==
  LET running == {c \in Slots : InFlight(c)}
      c == CHOOSE x \in running : TRUE
      cy == cyc[c]
      inLoop == cy.pc \in {"hasBeenProcessed", "insert", "update",
                           "markAsProcessed", "getRow"}
      written == {cy.processed[i].originalId : i \in 1..Len(cy.processed)}
                 \cup (IF cy.pc = "getRow" THEN {cy.list[cy.idx].id} ELSE {})
      rest == {cy.list[j].id : j \in {k \in cy.idx..Len(cy.list) :
                   /\ shouldProcess(cy.list[k], cy.today)
                   /\ ~hasBeenProcessed(cy.list[k].id, cy.today)}}
  IN IF Cardinality(running) = 1 /\ cy.alone /\ inLoop
     THEN [day |-> cy.today, pending |-> rest \ written, completed |-> written]
     ELSE NoCrash

\* The process dies while a cycle is in flight and is restarted later: the
\* database file survives, everything in memory is lost.  When the daily
\* task had already fired, its time of day has passed: no task scheduled
\* after the restart fires before the next midnight.
Crash ==
  /\ listening /\ crashes < MaxCrashes
  /\ \E c \in Slots : InFlight(c)
  /\ crashes' = crashes + 1
  /\ crashInfo' = CrashRecord
  /\ cyc' = [c \in Slots |-> IdleCycle]
  /\ listening' = FALSE /\ schedulerRunning' = FALSE /\ jobs' = <<>>
  /\ inits' = 0 /\ ticked' = IF ticked = {} THEN {} ELSE 1..(MaxInits + 1)
  /\ lastRun' = NoRun /\ potEdit' = NoEdit
  /\ UNCHANGED <<clock, client, dbVars, faults, runs, requests>>

Sum(f, S) ==
  LET RECURSIVE go(_)
      go(T) == IF T = {} THEN 0
               ELSE LET x == CHOOSE y \in T : TRUE IN f[x] + go(T \ {x})
  IN go(S)

\* ------------------------------------------- client: dates (projections.ts)
\* A JavaScript Date in local time: its calendar fields and its hour (23
\* stands for 23:59:59.999).  InvalidDate is what new Date(undefined) and
\* date-fns toDate(undefined) give; Undefined is a missing date property.
NewDate(y, m, d, h) == [y |-> y, m |-> m, d |-> d, h |-> h]
InvalidDate == NewDate(0, 0, 0, 0)
Undefined == NewDate(0, 0, 0, 1)
NaN == 0 - 1

\* Days from 2024-01-01 to the first day of month m of year y.
RECURSIVE DaysBefore(_, _)
DaysBefore(y, m) ==
  IF y = 2024 /\ m = 1 THEN 0
  ELSE LET py == IF m = 1 THEN y - 1 ELSE y
           pm == IF m = 1 THEN 12 ELSE m - 1
       IN DaysBefore(py, pm) + DaysInMonth(py, pm)

DayIndex(date) == DaysBefore(date.y, date.m) + date.d - 1

\* Date.getTime(): instants are ordered by day, then by hour.
getTime(date) == DayIndex(date) * 24 + date.h

\* The Date of the server's day number n at hour h.
ToDate(n, h) == LET t == DateOf(n) IN NewDate(t.y, t.m, t.d, h)

\* date-fns getDay / Date.getDay: 0 = Sunday .. 6 = Saturday, NaN when invalid.
getDay(date) ==
  IF date \in {InvalidDate, Undefined} THEN NaN ELSE (DayIndex(date) + 1) % 7

\* date-fns getDate / Date.getDate: the day of the month, NaN when invalid.
getDate(date) == IF date \in {InvalidDate, Undefined} THEN NaN ELSE date.d

\* Date.setDate(dd) for dd >= 1: days past the end of the month roll over
\* into the following months.
RECURSIVE setDate(_, _)
setDate(date, dd) ==
  IF dd > DaysInMonth(date.y, date.m)
  THEN setDate([date EXCEPT !.y = IF date.m = 12 THEN @ + 1 ELSE @,
                            !.m = IF date.m = 12 THEN 1 ELSE @ + 1],
               dd - DaysInMonth(date.y, date.m))
  ELSE [date EXCEPT !.d = dd]

\* normalizeToNoon: setHours(12, 0, 0, 0) on a copy.
normalizeToNoon(date) ==
  IF date \in {InvalidDate, Undefined} THEN InvalidDate ELSE [date EXCEPT !.h = 12]

\* Faulty variant of addWeeksFromOriginal: the day is clamped to the end of
\* the month (as addMonths does) instead of rolling over.
addWeeksFromOriginal_clamped(originalDate, weeks) ==
  LET normalized == normalizeToNoon(originalDate)
      dd == normalized.d + weeks * 7
      last == DaysInMonth(normalized.y, normalized.m)
  IN [normalized EXCEPT !.d = IF dd > last THEN last ELSE dd]

\* addWeeksFromOriginal: normalize to noon, then setDate(getDate() + weeks * 7).
addWeeksFromOriginal(originalDate, weeks) ==
  LET normalized == normalizeToNoon(originalDate)
  IN setDate(normalized, normalized.d + weeks * 7)

\* First loop of countWeekdayOccurrences: move to the first target weekday.
RECURSIVE firstOccurrence(_, _, _)
firstOccurrence(current, end, targetDay) ==
  IF getDay(current) /= targetDay /\ getTime(current) <= getTime(end)
  THEN firstOccurrence(setDate(current, current.d + 1), end, targetDay)
  ELSE current

\* Second loop of countWeekdayOccurrences: count, a week at a time.
RECURSIVE countFrom(_, _)
countFrom(current, end) ==
  IF getTime(current) <= getTime(end)
  THEN 1 + countFrom(setDate(current, current.d + 7), end)
  ELSE 0

\* Faulty variant of countWeekdayOccurrences: the bounds are not normalized.
countWeekdayOccurrences_raw(startDate, endDate, targetDay) ==
  countFrom(firstOccurrence(startDate, endDate, targetDay), endDate)

countWeekdayOccurrences(startDate, endDate, targetDay) ==
  LET current == normalizeToNoon(startDate)
      end == normalizeToNoon(endDate)
  IN countFrom(firstOccurrence(current, end, targetDay), end)

\* date-fns startOfMonth / endOfMonth / addMonths (the day is clamped to the
\* length of the target month).
startOfMonth(date) == NewDate(date.y, date.m, 1, 0)
endOfMonth(date) == NewDate(date.y, date.m, DaysInMonth(date.y, date.m), 23)

MonthIndex(date) == date.y * 12 + date.m - 1
MonthAt(k) == NewDate(k \div 12, (k % 12) + 1, 1, 0)

addMonths(date, amount) ==
  LET first == MonthAt(MonthIndex(date) + amount)
      last == DaysInMonth(first.y, first.m)
  IN NewDate(first.y, first.m, IF date.d > last THEN last ELSE date.d, date.h)

isSameMonth(a, b) == a.y = b.y /\ a.m = b.m
isBefore(a, b) == getTime(a) < getTime(b)

\* date-fns releases the application may be built with (no lock file pins
\* one): 2.x throws on an interval whose start is after its end, 3.x and
\* later return the months in reverse order.
DateFnsReleases == {"v2", "v3"}

\* Faulty variant of eachMonthOfInterval: the last month is left out.
eachMonthOfInterval_exclusive(start, end, lib) ==
  LET a == MonthIndex(start)
      b == MonthIndex(end)
  IN [error |-> "", months |-> [i \in 1..(b - a) |-> MonthAt(a + i - 1)]]

\* eachMonthOfInterval({start, end}): the first day of every month of the
\* interval.
eachMonthOfInterval(start, end, lib) ==
  LET a == MonthIndex(start)
      b == MonthIndex(end)
  IN IF getTime(start) <= getTime(end)
     THEN [error |-> "", months |-> [i \in 1..(b - a + 1) |-> MonthAt(a + i - 1)]]
     ELSE IF lib = "v2"
     THEN [error |-> "RangeError", months |-> <<>>]
     ELSE [error |-> "", months |-> [i \in 1..(a - b + 1) |-> MonthAt(a - i + 1)]]

\* Horizons of the forecaster and the default horizon of the projection.
MonthlyHorizon == 6
WeeklyHorizon == 26
DefaultMonthsAhead == 12

\* ------------------------------------ client: projection (projections.ts)
\* Amounts are whole pence; a growth multiplier is kept in thousandths and a
\* product is rounded down to a whole penny.
RECURSIVE PowMilli(_, _)
PowMilli(x, n) == IF n = 0 THEN 1000 ELSE (PowMilli(x, n - 1) * x) \div 1000

\* Faulty variant of monthlyGrowthMultiplier: the rate is taken off the balance.
monthlyGrowthMultiplier_discount(annualRate) ==
  IF annualRate > 0 THEN 1000 - annualRate ELSE 1000

\* Math.pow(1 + annualRate / 100, 1 / 12) when annualRate > 0, else 1.
monthlyGrowthMultiplier(annualRate) ==
  IF annualRate > 0
  THEN CHOOSE g \in 1000..1100 :
         /\ PowMilli(g, 12) <= 1000 + 10 * annualRate
         /\ g = 1100 \/ PowMilli(g + 1, 12) > 1000 + 10 * annualRate
  ELSE 1000

\* cumulativeAmount * monthlyGrowthMultiplier, applied when annualRate > 0.
applyGrowth(cumulativeAmount, annualRate) ==
  IF annualRate > 0
  THEN (cumulativeAmount * monthlyGrowthMultiplier(annualRate)) \div 1000
  ELSE cumulativeAmount

\* Faulty variant of nextCumulativeAmount: the month's contributions are added
\* before the growth is applied.
nextCumulativeAmount_after(cumulativeAmount, annualRate, contributions) ==
  applyGrowth(cumulativeAmount + contributions, annualRate)

\* One projected month: growth on the balance carried in, then the month's
\* contributions.
nextCumulativeAmount(cumulativeAmount, annualRate, contributions) ==
  applyGrowth(cumulativeAmount, annualRate) + contributions

\* Faulty variant of isOutstanding: a payment due today counts as outstanding.
isOutstanding_inclusive(date, currentDay) == getDate(date) >= currentDay

\* Filter of outstandingMonthlyThisMonth: the rule's day of the month is
\* after today's.
isOutstanding(date, currentDay) == getDate(date) > currentDay

\* Faulty variant of calculateProjection: the first point already includes
\* this month's outstanding monthly payments.
calculateProjection_eager(pot, transactions, monthsAhead, currentDate, lib) ==
  LET idx == 1..Len(transactions)
      monthly == {i \in idx : transactions[i].potId = pot.id
                              /\ transactions[i].repeatMonthly}
      amt == [i \in idx |-> transactions[i].amount]
      months == eachMonthOfInterval(startOfMonth(currentDate),
                                    addMonths(currentDate, monthsAhead), lib)
  IN [error |-> months.error, potId |-> pot.id,
      data |-> [k \in 1..Len(months.months) |->
                  [date |-> months.months[k],
                   amount |-> pot.currentTotal + k * Sum(amt, monthly),
                   projected |-> k /= 1]]]

\* calculateProjection(pot, transactions, monthsAhead), evaluated at
\* currentDate = new Date(): what it returns, or the error it throws.
calculateProjection(pot, transactions, monthsAhead, currentDate, lib) ==
  LET idx == 1..Len(transactions)
      monthlyRecurringTxns == {i \in idx : transactions[i].potId = pot.id
                                           /\ transactions[i].repeatMonthly}
      weeklyRecurringTxns == {i \in idx : transactions[i].potId = pot.id
                                          /\ transactions[i].repeatWeekly}
      amt == [i \in idx |-> transactions[i].amount]
      monthlyRecurringTotal == Sum(amt, monthlyRecurringTxns)
      \* t.date.getDate() of a rule without a date property throws
      typeError == \E i \in monthlyRecurringTxns : transactions[i].date = Undefined
      outstandingMonthlyThisMonth ==
        Sum(amt, {i \in monthlyRecurringTxns :
                    isOutstanding(transactions[i].date, currentDate.d)})
      annualRate == pot.interestRate
      months == eachMonthOfInterval(startOfMonth(currentDate),
                                    addMonths(currentDate, monthsAhead), lib)
      weeklyIn(a, b) ==
        Sum([i \in idx |-> amt[i] * countWeekdayOccurrences(
                                      a, b, getDay(transactions[i].date))],
            weeklyRecurringTxns)
      tomorrow == setDate(currentDate, currentDate.d + 1)
      remainingWeeklyThisMonth == weeklyIn(tomorrow, endOfMonth(currentDate))
      RECURSIVE cumulativeAmount(_)
      cumulativeAmount(k) ==
        IF k = 1 THEN pot.currentTotal
        ELSE LET month == months.months[k]
                 weeklyTotal == weeklyIn(startOfMonth(month), endOfMonth(month))
             IN nextCumulativeAmount(
                  cumulativeAmount(k - 1), annualRate,
                  IF k = 2
                  THEN outstandingMonthlyThisMonth + monthlyRecurringTotal
                         + remainingWeeklyThisMonth + weeklyTotal
                  ELSE monthlyRecurringTotal + weeklyTotal)
  IN IF typeError
     THEN [error |-> "TypeError", potId |-> pot.id, data |-> <<>>]
     ELSE IF months.error /= ""
     THEN [error |-> months.error, potId |-> pot.id, data |-> <<>>]
     ELSE [error |-> "", potId |-> pot.id,
           data |-> [k \in 1..Len(months.months) |->
                       [date |-> months.months[k],
                        amount |-> cumulativeAmount(k),
                        projected |-> k /= 1]]]

\* calculateAllProjections: pots.map(calculateProjection); the first throw
\* ends the map.
calculateAllProjections(data, monthsAhead, currentDate, lib) ==
  LET each == [p \in 1..Len(data.pots) |->
                 calculateProjection(data.pots[p], data.transactions, monthsAhead,
                                     currentDate, lib)]
      failed == {p \in 1..Len(data.pots) : each[p].error /= ""}
  IN IF failed = {} THEN [error |-> "", projections |-> each]
     ELSE [error |-> each[CHOOSE p \in failed : \A q \in failed : p <= q].error,
           projections |-> <<>>]

\* loadDataForUser of useSavingsData: the projections state and the error
\* state after the call; the one try / catch is around the whole load.
loadDataForUser(data, monthsAhead, currentDate, lib) ==
  LET proj == calculateAllProjections(data, monthsAhead, currentDate, lib)
  IN IF proj.error = ""
     THEN [error |-> "", projections |-> proj.projections]
     ELSE [error |-> "Failed to load data. Please try refreshing.",
           projections |-> <<>>]

\* ------------------------------------ client: forecaster (projections.ts)
\* One virtual instance: occurrence i of rule recurring, on nextDate.
Projected(kind, recurring, i, nextDate) ==
  [id |-> <<kind, recurring.id, i>>, potId |-> recurring.potId,
   amount |-> recurring.amount, date |-> nextDate,
   repeatMonthly |-> kind = "projected-monthly",
   repeatWeekly |-> kind = "projected-weekly"]

\* Faulty variant of getProjectedRecurringTransactions: occurrences before
\* now are skipped, not only those before the start of the month.
getProjectedRecurringTransactions_fromNow(transactions, now) ==
  LET currentDate == normalizeToNoon(now)
      idx == 1..Len(transactions)
      originalDate(r) == normalizeToNoon(transactions[r].date)
      monthlyDate(r, i) == normalizeToNoon(addMonths(originalDate(r), i))
      monthly == {p \in {r \in idx : transactions[r].repeatMonthly} \X (1..MonthlyHorizon) :
                    ~isBefore(monthlyDate(p[1], p[2]), currentDate)}
      weeklyDate(r, i) == addWeeksFromOriginal(originalDate(r), i)
      weekly == {p \in {r \in idx : transactions[r].repeatWeekly} \X (1..WeeklyHorizon) :
                   ~isBefore(weeklyDate(p[1], p[2]), currentDate)}
  IN {Projected("projected-monthly", transactions[p[1]], p[2], monthlyDate(p[1], p[2])) :
        p \in monthly}
     \cup {Projected("projected-weekly", transactions[p[1]], p[2], weeklyDate(p[1], p[2])) :
             p \in weekly}

\* getProjectedRecurringTransactions over the transactions loadSavingsData
\* returned, at now = new Date(): the virtual instances it returns (as a set).
getProjectedRecurringTransactions(transactions, now) ==
  LET currentDate == normalizeToNoon(now)
      monthStart == startOfMonth(currentDate)
      idx == 1..Len(transactions)
      originalDate(r) == normalizeToNoon(transactions[r].date)
      monthlyDate(r, i) == normalizeToNoon(addMonths(originalDate(r), i))
      existingTransaction(r, i) ==
        \E t \in idx :
          /\ transactions[t].potId = transactions[r].potId
          /\ transactions[t].repeatMonthly
          /\ isSameMonth(transactions[t].date, monthlyDate(r, i))
          /\ getDate(normalizeToNoon(transactions[t].date)) = getDate(originalDate(r))
      monthly == {p \in {r \in idx : transactions[r].repeatMonthly} \X (1..MonthlyHorizon) :
                    /\ ~isBefore(monthlyDate(p[1], p[2]), monthStart)
                    /\ ~existingTransaction(p[1], p[2])}
      weeklyDate(r, i) == addWeeksFromOriginal(originalDate(r), i)
      weekly == {p \in {r \in idx : transactions[r].repeatWeekly} \X (1..WeeklyHorizon) :
                   ~isBefore(weeklyDate(p[1], p[2]), monthStart)}
  IN {Projected("projected-monthly", transactions[p[1]], p[2], monthlyDate(p[1], p[2])) :
        p \in monthly}
     \cup {Projected("projected-weekly", transactions[p[1]], p[2], weeklyDate(p[1], p[2])) :
             p \in weekly}

\* The ledger's amounts are pounds; the browser's arithmetic is kept in pence.
Pence(amount) == 100 * amount

\* A row of the transactions table as GET /user/data returns it.
formattedTransaction(t) ==
  [id |-> t, potId |-> txs[t].pot, amount |-> Pence(txs[t].amount),
   date |-> ToDate(txs[t].date, 12),
   repeatMonthly |-> txs[t].monthly = 1, repeatWeekly |-> txs[t].weekly = 1]

\* loadSavingsData(): the transactions of the logged-in user.
loadSavingsData(u) ==
  LET ids == [i \in TxIds |-> i]
      own(i) == txs[i] /= NoTx /\ txs[i].user = u
      rows == SelectSeq(ids, own)
  IN [k \in 1..Len(rows) |-> formattedTransaction(rows[k])]

\* ------------------------------------------------ client: the computations
NoClient == [op |-> "none"]

serverVars == <<clock, pots, potSeed, txs, origin, markers, nextId, nextAuto, cyc,
                listening, schedulerRunning, jobs, inits, faults, crashes, lastRun,
                crashInfo, ticked, runs, requests, potEdit>>

\* Hours of the day at which the browser computes.
NowHours == {9, 21}

\* The calendar page calls getProjectedRecurringTransactions for user u.
GetProjectedRecurringTransactions(u, h) ==
  /\ client = NoClient
  /\ LET transactions == loadSavingsData(u)
         now == ToDate(clock, h)
     IN client' = [op |-> "getProjectedRecurringTransactions", user |-> u,
                   transactions |-> transactions, now |-> now,
                   result |-> getProjectedRecurringTransactions(transactions, now)]
  /\ UNCHANGED serverVars

\* The dashboard calls calculateProjection for one pot.
CalculateProjection(pot, transactions, monthsAhead, h, lib) ==
  /\ client = NoClient
  /\ LET currentDate == ToDate(clock, h)
     IN client' = [op |-> "calculateProjection", pot |-> pot,
                   transactions |-> transactions, monthsAhead |-> monthsAhead,
                   currentDate |-> currentDate, lib |-> lib,
                   result |-> calculateProjection(pot, transactions, monthsAhead,
                                                  currentDate, lib)]
  /\ UNCHANGED serverVars

\* useSavingsData loads the data of both users and projects every pot.
LoadDataForUser(data, h, lib) ==
  /\ client = NoClient
  /\ LET currentDate == ToDate(clock, h)
     IN client' = [op |-> "loadDataForUser", data |-> data,
                   currentDate |-> currentDate, lib |-> lib,
                   result |-> loadDataForUser(data, DefaultMonthsAhead,
                                              currentDate, lib)]
  /\ UNCHANGED serverVars

\* addWeeksFromOriginal applied to a date.
AddWeeksFromOriginal(originalDate, weeks) ==
  /\ client = NoClient
  /\ client' = [op |-> "addWeeksFromOriginal", originalDate |-> originalDate,
                weeks |-> weeks,
                result |-> addWeeksFromOriginal(originalDate, weeks)]
  /\ UNCHANGED serverVars

\* countWeekdayOccurrences applied to two dates and a weekday.
CountWeekdayOccurrences(startDate, endDate, targetDay) ==
  /\ client = NoClient
  /\ client' = [op |-> "countWeekdayOccurrences", startDate |-> startDate,
                endDate |-> endDate, targetDay |-> targetDay,
                result |-> countWeekdayOccurrences(startDate, endDate, targetDay)]
  /\ UNCHANGED serverVars

\* The database right after it was created: the seeded users, no rows.
EmptyDb ==
  /\ pots = [p \in PotIds |-> NoPot]
  /\ potSeed = [p \in PotIds |-> 0]
  /\ txs = [t \in TxIds |-> NoTx]
  /\ origin = [t \in TxIds |-> NoOrigin]
  /\ markers = {}
  /\ nextId = 1
  /\ nextAuto = Len(RuleCandidates) + 1

\* A database in which alex and beth each created a pot (POST /pots) and
\* then the rules R (POST /transactions, which adds each amount to its pot).
LedgerWith(R) ==
  LET amt == [t \in TxIds |-> IF t \in R THEN RuleCandidates[t].amount ELSE 0]
      owner == [p \in PotIds |-> IF p = 1 THEN "alex" ELSE "beth"]
      seed == CHOOSE x \in PotSeeds : TRUE
  IN /\ pots = [p \in PotIds |->
                  [user |-> owner[p],
                   total |-> seed + Sum(amt, {t \in R : RuleCandidates[t].pot = p})]]
     /\ potSeed = [p \in PotIds |-> seed]
     /\ txs = [t \in TxIds |-> IF t \in R THEN RuleCandidates[t] ELSE NoTx]
     /\ origin = [t \in TxIds |-> NoOrigin]
     /\ markers = {}
     /\ nextId = Len(RuleCandidates) + 1
     /\ nextAuto = Len(RuleCandidates) + 1

Quiet ==
  /\ clock = StartDay
  /\ cyc = [c \in Slots |-> IdleCycle]
  /\ faults = 0 /\ crashes = 0
  /\ lastRun = NoRun /\ crashInfo = NoCrash
  /\ ticked = {} /\ runs = 0 /\ requests = 0
  /\ client = NoClient /\ potEdit = NoEdit

\* Before the server process starts, on a fresh database.
InitFresh ==
  /\ Quiet /\ EmptyDb
  /\ listening = FALSE /\ schedulerRunning = FALSE /\ jobs = <<>> /\ inits = 0

\* The server is up with the default schedule, and users have set up rules.
Init ==
  /\ Quiet
  /\ \E R \in SUBSET (1..Len(RuleCandidates)) : LedgerWith(R)
  /\ listening = TRUE /\ schedulerRunning = TRUE /\ jobs = <<[given |-> DefaultCron, cron |-> DefaultCron]>> /\ inits = 1

CycleStep ==
  \E c \in Slots :
    \/ \E ok \in BOOLEAN : GetAllRows(c, ok)
    \/ \E ok \in BOOLEAN : HasBeenProcessed(c, ok)
    \/ \E ok \in BOOLEAN : InsertTransaction(c, ok)
    \/ \E ok \in BOOLEAN : UpdatePotTotal(c, ok)
    \/ \E ok \in BOOLEAN : MarkAsProcessed(c, ok)
    \/ \E ok \in BOOLEAN : GetUpdatedPot(c, ok)
    \/ \E outcome \in NotifyOutcomes : SendNotification(c, outcome)
    \/ Finish(c)

\* Bodies of PUT /transactions/:id: no field, one field, or pot and amount.
PutBodies ==
  LET none == [potId |-> {}, amount |-> {}, date |-> {}, repeatMonthly |-> {},
               repeatWeekly |-> {}]
  IN {none}
     \cup {[none EXCEPT !.potId = {p}] : p \in PotIds}
     \cup {[none EXCEPT !.amount = {a}] : a \in Amounts}
     \cup {[none EXCEPT !.date = {d}] : d \in AnchorDays}
     \cup {[none EXCEPT !.repeatMonthly = {b}] : b \in BOOLEAN}
     \cup {[none EXCEPT !.repeatWeekly = {b}] : b \in BOOLEAN}
     \cup {[none EXCEPT !.potId = {p}, !.amount = {a}] : p \in PotIds, a \in Amounts}

Request ==
  \E u \in Users :
    \/ \E seed \in PotSeeds : PostPot(u, seed)
    \/ \E p \in PotIds, a \in Amounts, d \in AnchorDays, m \in BOOLEAN, w \in BOOLEAN :
         PostTx(u, p, a, d, m, w)
    \/ \E id \in TxIds, b \in PutBodies :
         PutTx(u, id, b.potId, b.amount, b.date, b.repeatMonthly, b.repeatWeekly)
    \/ \E id \in TxIds : DeleteTx(u, id)

\* The scheduler's steps when every storage statement succeeds.
CycleStepOk ==
  \E c \in Slots :
    \/ GetAllRows(c, TRUE)
    \/ HasBeenProcessed(c, TRUE)
    \/ InsertTransaction(c, TRUE)
    \/ UpdatePotTotal(c, TRUE)
    \/ MarkAsProcessed(c, TRUE)
    \/ GetUpdatedPot(c, TRUE)
    \/ \E outcome \in NotifyOutcomes : SendNotification(c, outcome)
    \/ Finish(c)

Next ==
  \/ StartServer(TRUE, "")
  \/ \E c \in Slots : \E j \in 1..Len(jobs) : CronTick(c, j)
  \/ \E c \in Slots : ManualRun(c)
  \/ CycleStep
  \/ AdvanceDay
  \/ Crash

\* The scheduler over a ledger of recurring rules: cron ticks, out-of-band
\* runs, rejected storage statements, midnights, crashes and restarts.
Spec == Init /\ [][Next]_vars

\* One cycle at a time: runProcessingCycle is only called when no other call
\* is in flight, and the process stays up.
NoneInFlight == \A c \in Slots : ~InFlight(c)

NextSeq ==
  \/ \E j \in 1..Len(jobs) : NoneInFlight /\ CronTick(1, j)
  \/ NoneInFlight /\ ManualRun(1)
  \/ CycleStep
  \/ AdvanceDay

SpecSeq == Init /\ [][NextSeq]_vars

\* The module's start-up and stop functions on a fresh database: the server
\* starts with any configuration, initializeScheduler and stopScheduler are
\* called, the scheduled tasks fire, the process crashes and restarts.
NextStartup ==
  \/ \E enabled \in BOOLEAN, e \in EnvCrons : StartServer(enabled, e)
  \/ \E e \in EnvCrons : InitializeScheduler(IF e = "" THEN DefaultCron ELSE e)
  \/ StopScheduler
  \/ \E c \in Slots : \E j \in 1..Len(jobs) : CronTick(c, j)
  \/ \E c \in Slots : \E ok \in BOOLEAN : GetAllRows(c, ok)
  \/ \E c \in Slots : Finish(c)
  \/ AdvanceDay
  \/ Crash

SpecStartup == InitFresh /\ [][NextStartup]_vars

\* The REST handlers and the scheduler on one database, on one day, one
\* cycle at a time, every storage statement succeeding.
NextLedger ==
  \/ StartServer(TRUE, "")
  \/ Request
  \/ \E j \in 1..Len(jobs) : NoneInFlight /\ CronTick(1, j)
  \/ NoneInFlight /\ ManualRun(1)
  \/ CycleStepOk

SpecLedger == InitFresh /\ [][NextLedger]_vars

\* PUT /pots/:id against the scheduler and DELETE /transactions/:id, one
\* cycle at a time, every storage statement succeeding.
NextPots ==
  \/ \E u \in Users, id \in PotIds, ct \in Optional(PotSeeds) : PutPotRead(u, id, ct)
  \/ PutPotWrite
  \/ \E u \in Users, id \in TxIds : DeleteTx(u, id)
  \/ \E j \in 1..Len(jobs) : NoneInFlight /\ CronTick(1, j)
  \/ CycleStepOk

SpecPots == Init /\ [][NextPots]_vars

\* The transaction requests that edit and delete rows of a ledger in which
\* both users have pots and rules.
NextOwners ==
  \/ \E u \in Users, id \in TxIds, b \in PutBodies :
       PutTx(u, id, b.potId, b.amount, b.date, b.repeatMonthly, b.repeatWeekly)
  \/ \E u \in Users, id \in TxIds : DeleteTx(u, id)

SpecOwners == Init /\ [][NextOwners]_vars

\* Anchor dates of the rules created on the first day: in an earlier month
\* on the 31st and on the 15th, today, and a month ahead.
Jan31 == 30                     \* 2024-01-31
Apr15 == 31 + 29 + 31 + 14      \* 2024-04-15
CalendarAnchors == {Jan31, Feb15, Mar15, Apr15}

\* The server is up and alex and beth each have a pot, without transactions.
InitCalendar ==
  /\ Quiet
  /\ pots = [p \in PotIds |-> [user |-> IF p = 1 THEN "alex" ELSE "beth",
                               total |-> CHOOSE x \in PotSeeds : TRUE]]
  /\ potSeed = [p \in PotIds |-> CHOOSE x \in PotSeeds : TRUE]
  /\ txs = [t \in TxIds |-> NoTx]
  /\ origin = [t \in TxIds |-> NoOrigin]
  /\ markers = {}
  /\ nextId = 1
  /\ nextAuto = Len(RuleCandidates) + 1
  /\ listening = TRUE /\ schedulerRunning = TRUE
  /\ jobs = <<[given |-> DefaultCron, cron |-> DefaultCron]>> /\ inits = 1

\* Monthly rules are created on the first day; after that the daily task
\* fires once every day, its cycle succeeds, and only then midnight passes.
NextCalendar ==
  \/ \E u \in Users, p \in PotIds, a \in Amounts, d \in CalendarAnchors :
       clock = StartDay /\ PostTx(u, p, a, d, TRUE, FALSE)
  \/ \E j \in 1..Len(jobs) :
       NoneInFlight /\ CronTickUpTo(1, j, MaxCalendarDays + 1)
  \/ CycleStepOk
  \/ ticked /= {} /\ NoneInFlight /\ AdvanceDayUntil(StartDay + MaxCalendarDays)

SpecCalendar == InitCalendar /\ [][NextCalendar]_vars

\* The days on which the browser is observed, and the ledgers it sees.
Mar10 == 31 + 29 + 9        \* 2024-03-10, a Sunday
Mar20 == 31 + 29 + 19       \* 2024-03-20, a Wednesday
Mar31 == 31 + 29 + 30       \* 2024-03-31, a Sunday
ClientDays == {Mar10, Mar15, Mar20, Mar31}
ClientLedgers == {{}, {1}, {1, 2}, {1, 3}, {1, 2, 3, 4}}

\* Pots handed to calculateProjection: a balance (an overdrawn pot
\* included; POST and PUT /pots accept any number) and an annual rate.
PotTotals == {0 - 100, 0, 500}
InterestRates == {0 - 5, 0, 12}
ProjectionPots ==
  [id : PotIds, currentTotal : PotTotals, interestRate : InterestRates]

\* The combined transactions of both users, as useSavingsData passes them.
combinedTransactions ==
  LET ids == [i \in TxIds |-> i]
      exists(i) == txs[i] /= NoTx
      rows == SelectSeq(ids, exists)
  IN [k \in 1..Len(rows) |-> formattedTransaction(rows[k])]

\* The combined data with the date property of rule bad missing (bad = 0: none).
combinedData(bad) ==
  [pots |-> [p \in PotIds |-> [id |-> p, currentTotal |-> Pence(pots[p].total),
                               interestRate |-> 0]],
   transactions |-> [k \in 1..Len(combinedTransactions) |->
                       IF combinedTransactions[k].id = bad
                       THEN [combinedTransactions[k] EXCEPT !.date = Undefined]
                       ELSE combinedTransactions[k]]]

\* Dates and hours the date helpers are applied to.
SampleHours == {0, 9, 23}
WeekOrigins ==
  {NewDate(2024, 1, 31, h) : h \in SampleHours}
  \cup {NewDate(2024, 2, 23, h) : h \in SampleHours}
  \cup {NewDate(2024, 12, 13, h) : h \in SampleHours}
  \cup {NewDate(2024, 12, 27, h) : h \in SampleHours}
RangeHours == {0, 23}
RangeBounds ==
  {NewDate(2024, m, d, h) : m \in {2, 3}, d \in {1, 10}, h \in RangeHours}
  \cup {NewDate(2024, 2, 29, h) : h \in RangeHours}
  \cup {NewDate(2024, 3, 31, h) : h \in RangeHours}
  \cup {NewDate(2024, 4, 1, h) : h \in RangeHours}

\* The browser on some day, over a ledger the users have set up.
InitClient ==
  /\ clock \in ClientDays
  /\ cyc = [c \in Slots |-> IdleCycle]
  /\ faults = 0 /\ crashes = 0
  /\ lastRun = NoRun /\ crashInfo = NoCrash
  /\ ticked = {} /\ runs = 0 /\ requests = 0
  /\ client = NoClient /\ potEdit = NoEdit
  /\ \E R \in ClientLedgers : LedgerWith(R)
  /\ listening = TRUE /\ schedulerRunning = TRUE
  /\ jobs = <<[given |-> DefaultCron, cron |-> DefaultCron]>> /\ inits = 1

NextClient ==
  \/ \E pot \in ProjectionPots, monthsAhead \in (0 - MaxBack)..MaxMonthsAhead,
        h \in NowHours, lib \in DateFnsReleases :
       CalculateProjection(pot, combinedTransactions, monthsAhead, h, lib)
  \/ \E bad \in {0} \cup ExistingTx, h \in NowHours, lib \in DateFnsReleases :
       LoadDataForUser(combinedData(bad), h, lib)
  \/ \E u \in Users, h \in NowHours : GetProjectedRecurringTransactions(u, h)
  \/ \E d \in WeekOrigins, n \in 0..MaxWeeks : AddWeeksFromOriginal(d, n)
  \/ \E s \in RangeBounds, e \in RangeBounds, w \in 0..6 :
       CountWeekdayOccurrences(s, e, w)

\* The functions of projections.ts applied once, on any of the days, to any
\* of the ledgers.
SpecClient == InitClient /\ [][NextClient]_vars

\* The scheduler, one cycle at a time and every statement succeeding, with
\* the calendar page computing its virtual instances at any moment.
NextForecast ==
  \/ \E j \in 1..Len(jobs) : NoneInFlight /\ CronTick(1, j)
  \/ NoneInFlight /\ ManualRun(1)
  \/ CycleStepOk
  \/ \E u \in Users, h \in NowHours : GetProjectedRecurringTransactions(u, h)

SpecForecast == Init /\ [][NextForecast]_vars

\* ------------------------------------------------------------ properties
ProcessedIds(cy) == {cy.processed[i].originalId : i \in 1..Len(cy.processed)}
Elements(q) == {q[i] : i \in 1..Len(q)}

\* Existing ledger rows materialized from rule r for day d.
MaterializedFor(r, d) ==
  {t \in ExistingTx : origin[t].rule = r /\ origin[t].day = d}

MarkersFor(r, d) == {k \in markers : k.rule = r /\ k.date = ISODate(d)}

\* Sum of the amounts of the existing rows of pot p.
LedgerSum(p) ==
  Sum([t \in TxIds |-> txs[t].amount], {t \in ExistingTx : txs[t].pot = p})

DueRules(list, today) ==
  {list[j].id : j \in {k \in 1..Len(list) : shouldProcess(list[k], today)}}

C6_ErrorIsolation ==
  \A c \in Slots :
    LET cy == cyc[c]
    IN /\ cy.faulted /= {} => cy.pc /= "rejected"
       /\ cy.pc \in {"sendNotification", "done"}
          => /\ cy.faulted \subseteq Elements(cy.errors)
             /\ \A r \in DueRules(cy.list, cy.today) \ cy.faulted :
                  MaterializedFor(r, cy.today) /= {}

\* C6 witness: a cycle ended in which a statement of one rule was rejected
\* and a later due rule was materialized.
C6_Witness ==
  \E c \in Slots :
    /\ cyc[c].pc = "done"
    /\ \E r \in cyc[c].faulted : \E q \in ProcessedIds(cyc[c]) : q > r

C2_AtMostOncePerDay ==
  \A t1, t2 \in TxIds :
    (/\ origin[t1].rule /= 0
     /\ origin[t1].rule = origin[t2].rule
     /\ origin[t1].day = origin[t2].day) => t1 = t2

\* C3: whenever no cycle is in flight (so also after a crash or after a
\* rejected write), a marker for (rule, day) exists if and only if the
\* materialized ledger transaction exists and its amount was added to the pot.
C3_AtomicMaterialization ==
  NoneInFlight =>
    /\ \A t \in TxIds : origin[t].rule /= 0 =>
         /\ origin[t].credited
         /\ markAsProcessed(origin[t].rule, origin[t].day, t) \in markers
    /\ \A k \in markers : /\ origin[k.tx].rule = k.rule
                          /\ origin[k.tx].credited

\* C4: at most one materialization cycle is in flight at any time.
C4_OneCycleInFlight ==
  Cardinality({c \in Slots : cyc[c].pc \notin {"idle", "done", "rejected"}}) <= 1

\* C7: when the first cycle after a crash completes (alone, without errors,
\* no storage statement ever rejected), and the crashed cycle had completed
\* some due rules and left others, then every one of those rules has exactly
\* one ledger transaction for the day of the crash.
C7_ResumedExactlyOnce ==
  \A c \in Slots :
    (/\ cyc[c].pc = "done" /\ cyc[c].alone /\ cyc[c].errors = <<>>
     /\ faults = 0
     /\ crashInfo.pending /= {} /\ crashInfo.completed /= {})
    => \A r \in crashInfo.pending \cup crashInfo.completed :
         Cardinality(MaterializedFor(r, crashInfo.day)) = 1

\* C5: whenever no cycle is in flight and no storage statement was rejected,
\* every pot's currentTotal is its seed plus the amounts of the existing
\* transactions of that pot.
C5_BalanceInvariant ==
  (NoneInFlight /\ faults = 0) =>
    \A p \in ExistingPots : pots[p].total = potSeed[p] + LedgerSum(p)

\* C10: a task scheduled for an invalid expression runs on the default
\* schedule.
C10_InvalidFallsBackToDefault ==
  \A i \in 1..Len(jobs) :
    ~cronValidate(jobs[i].given) => jobs[i].cron = DefaultCron

\* ------------------------------------------- properties of projections.ts
Projection == client.op = "calculateProjection"

\* Indices of the recurring rules of the projected pot.
RulesOf(pot, transactions) ==
  {i \in 1..Len(transactions) :
     /\ transactions[i].potId = pot.id
     /\ transactions[i].repeatMonthly \/ transactions[i].repeatWeekly}

Amounts_(transactions) == [i \in 1..Len(transactions) |-> transactions[i].amount]

\* C11: whenever calculateProjection returns, its first point is the current
\* month with amount pot.currentTotal and projected = false, whatever the
\* rules and monthsAhead are; and it does return for every monthsAhead >= 0.
C11_FirstPointIsCurrentTotal ==
  Projection =>
    /\ client.monthsAhead >= 0 => client.result.error = ""
    /\ client.result.error = "" =>
         /\ Len(client.result.data) >= 1
         /\ client.result.data[1] = [date |-> startOfMonth(client.currentDate),
                                     amount |-> client.pot.currentTotal,
                                     projected |-> FALSE]

\* C11 witness: a projection with a negative monthsAhead returned more than
\* one point for a pot with recurring rules.
C11_Witness ==
  /\ Projection /\ client.result.error = ""
  /\ client.monthsAhead < 0
  /\ Len(client.result.data) >= 2
  /\ RulesOf(client.pot, client.transactions) /= {}

\* C12 as stated: if all recurring rule amounts of the pot are >= 0 and its
\* interest rate is >= 0, the amounts of the returned points are
\* non-decreasing in the month index.
C12_NonDecreasing ==
  (/\ Projection /\ client.result.error = ""
   /\ client.pot.interestRate >= 0
   /\ \A i \in RulesOf(client.pot, client.transactions) :
        client.transactions[i].amount >= 0)
  => \A k \in 1..(Len(client.result.data) - 1) :
       client.result.data[k].amount <= client.result.data[k + 1].amount

\* C12 amended: the same, for a pot whose currentTotal is >= 0 (interest on
\* an overdrawn balance makes it fall further every month).
C12_NonDecreasingFromCredit ==
  (/\ Projection /\ client.result.error = ""
   /\ client.pot.interestRate >= 0
   /\ client.pot.currentTotal >= 0
   /\ \A i \in RulesOf(client.pot, client.transactions) :
        client.transactions[i].amount >= 0)
  => \A k \in 1..(Len(client.result.data) - 1) :
       client.result.data[k].amount <= client.result.data[k + 1].amount

\* C12 witness: a pot of 500 at 12% with recurring rules, projected three
\* months ahead, grows strictly every month.
C12_Witness ==
  /\ Projection /\ client.result.error = ""
  /\ client.pot.interestRate = 12 /\ client.pot.currentTotal = 500
  /\ RulesOf(client.pot, client.transactions) /= {}
  /\ Len(client.result.data) = 4
  /\ \A k \in 1..3 : client.result.data[k].amount < client.result.data[k + 1].amount

\* C13: with interest rate 0 and only monthly rules on the pot, evaluated on
\* day t of the month, point 1 is currentTotal plus the amounts of the rules
\* whose anchor day is after t plus the sum of all monthly amounts, and each
\* later point is the previous one plus the sum of all monthly amounts.
C13_MonthlyOnlyArithmetic ==
  LET tx == client.transactions
      rules == RulesOf(client.pot, tx)
      total == Sum(Amounts_(tx), rules)
      later == Sum(Amounts_(tx), {i \in rules : tx[i].date.d > client.currentDate.d})
      data == client.result.data
  IN (/\ Projection /\ client.monthsAhead >= 1
      /\ client.pot.interestRate = 0
      /\ \A i \in rules : ~tx[i].repeatWeekly)
     => /\ client.result.error = ""
        /\ Len(data) = client.monthsAhead + 1
        /\ data[2].amount = client.pot.currentTotal + later + total
        /\ \A k \in 3..Len(data) : data[k].amount = data[k - 1].amount + total

\* C13 witness: a pot of 500 with one monthly rule anchored on the 15th,
\* projected on the 10th: the outstanding payment and the next one are both
\* in point 1.
C13_Witness ==
  /\ Projection /\ client.monthsAhead >= 2
  /\ client.pot.interestRate = 0 /\ client.pot.currentTotal = 500
  /\ client.currentDate.d = 10
  /\ \E i \in RulesOf(client.pot, client.transactions) :
       /\ client.transactions[i].date.d = 15
       /\ client.result.data[2].amount = 500 + 2 * client.transactions[i].amount
       /\ client.result.data[3].amount = 500 + 3 * client.transactions[i].amount

\* C14 as stated: for a pot with no recurring rules and monthsAhead >= 1 the
\* projection has monthsAhead + 1 points, all equal to currentTotal, the
\* first with projected = false and the others with projected = true.
C14_FlatLine ==
  LET data == client.result.data
  IN (/\ Projection /\ client.monthsAhead >= 1
      /\ RulesOf(client.pot, client.transactions) = {})
     => /\ client.result.error = ""
        /\ Len(data) = client.monthsAhead + 1
        /\ \A k \in 1..Len(data) : /\ data[k].amount = client.pot.currentTotal
                                   /\ data[k].projected = (k /= 1)

\* C14 amended: the same, for a pot whose interest rate is absent, zero or
\* negative (a positive rate compounds the balance every month).
C14_FlatLineWithoutInterest ==
  LET data == client.result.data
  IN (/\ Projection /\ client.monthsAhead >= 1
      /\ RulesOf(client.pot, client.transactions) = {}
      /\ client.pot.interestRate <= 0)
     => /\ client.result.error = ""
        /\ Len(data) = client.monthsAhead + 1
        /\ \A k \in 1..Len(data) : /\ data[k].amount = client.pot.currentTotal
                                   /\ data[k].projected = (k /= 1)

\* C14 witness: a pot of 500 without rules and without interest, projected
\* three months ahead while other pots have rules.
C14_Witness ==
  /\ Projection /\ client.monthsAhead = 3
  /\ client.pot.currentTotal = 500 /\ client.pot.interestRate = 0
  /\ RulesOf(client.pot, client.transactions) = {}
  /\ client.transactions /= <<>>
  /\ Len(client.result.data) = 4

\* C15: for every monthsAhead <= 0 calculateProjection does not fail and
\* returns exactly one point.
C15_NonPositiveMonthsAhead ==
  (Projection /\ client.monthsAhead <= 0)
  => /\ client.result.error = ""
     /\ Len(client.result.data) = 1

\* C16: the forecaster emits no virtual monthly instance of a rule for a day
\* for which the ledger it read holds a transaction the scheduler
\* materialized from that rule.
C16_NoDoubleDisplay ==
  client.op = "getProjectedRecurringTransactions" =>
    \A v \in client.result :
      v.repeatMonthly =>
        ~\E k \in 1..Len(client.transactions) :
           LET t == client.transactions[k]
           IN /\ origin[t.id].rule = v.id[2]
              /\ DayIndex(t.date) = DayIndex(v.date)

\* C17: addWeeksFromOriginal(d, n) is the day 7n days after d and falls on
\* the weekday of d, across month and year ends; and every weekly virtual
\* instance of the forecaster falls on the weekday of its rule's date.
C17_WeekdayPreserved ==
  /\ client.op = "addWeeksFromOriginal" =>
       /\ getDay(client.result) = getDay(client.originalDate)
       /\ DayIndex(client.result) = DayIndex(client.originalDate) + 7 * client.weeks
  /\ client.op = "getProjectedRecurringTransactions" =>
       \A v \in client.result :
         v.repeatWeekly =>
           \A k \in 1..Len(client.transactions) :
             client.transactions[k].id = v.id[2] =>
               getDay(v.date) = getDay(client.transactions[k].date)

\* C17 witness: a Friday of December 2024 advanced into January 2025.
C17_Witness ==
  /\ client.op = "addWeeksFromOriginal"
  /\ client.weeks >= 1
  /\ client.originalDate.y = 2024 /\ client.result.y = 2025
  /\ getDay(client.result) = 5

\* Days of the inclusive range of calendar days [startDate, endDate] that
\* fall on weekday w.
WeekdaysIn(startDate, endDate, w) ==
  {n \in DayIndex(startDate)..DayIndex(endDate) : getDayOfWeek(n) = w}

WholeMonth(startDate, endDate) ==
  /\ startDate = startOfMonth(startDate)
  /\ endDate = endOfMonth(startDate)

\* C18 as stated: the count is the number of calendar days of [start, end]
\* on weekday w whatever the times of day, it is 0 whenever start is after
\* end, and for a whole calendar month it is 4 or 5.
C18_CountsInclusiveRange ==
  client.op = "countWeekdayOccurrences" =>
    /\ client.result =
         Cardinality(WeekdaysIn(client.startDate, client.endDate, client.targetDay))
    /\ getTime(client.startDate) > getTime(client.endDate) => client.result = 0
    /\ WholeMonth(client.startDate, client.endDate) => client.result \in {4, 5}

\* C18 amended: the same, with 0 whenever the calendar day of start is after
\* the calendar day of end (on one calendar day the times do not matter).
C18_CountsCalendarDays ==
  client.op = "countWeekdayOccurrences" =>
    /\ client.result =
         Cardinality(WeekdaysIn(client.startDate, client.endDate, client.targetDay))
    /\ DayIndex(client.startDate) > DayIndex(client.endDate) => client.result = 0
    /\ WholeMonth(client.startDate, client.endDate) => client.result \in {4, 5}

\* C18 witness: five Fridays counted in March 2024, from its first instant
\* to its last.
C18_Witness ==
  /\ client.op = "countWeekdayOccurrences"
  /\ WholeMonth(client.startDate, client.endDate)
  /\ client.startDate.m = 3 /\ client.targetDay = 5
  /\ client.result = 5

\* C19: a rule that has been deleted is never materialized afterwards, and
\* deleting a rule leaves every transaction materialized from it in the
\* ledger and takes only the rule's own amount out of the pot.
C19_DeletedRuleNeverMaterialized ==
  [][/\ \A t \in TxIds :
          (txs[t] = NoTx /\ txs'[t] /= NoTx /\ origin'[t].rule /= 0)
          => txs[origin'[t].rule] /= NoTx
     /\ \A r \in TxIds :
          (IsRecurring(r) /\ txs'[r] = NoTx)
          => /\ \A t \in TxIds : origin[t].rule = r => txs'[t] = txs[t]
             /\ pots' = AddToPot(pots, txs[r].pot, 0 - txs[r].amount)]_vars

WeeklyMatch(recurring, today) ==
  recurring.repeat_weekly = 1 /\ getDayOfWeek(today) = getDayOfWeek(recurring.date)

MonthlyMatch(recurring, today) ==
  recurring.repeat_monthly = 1 /\ getDayOfMonth(today) = getDayOfMonth(recurring.date)

\* C21: when a cycle has gone through its rules without an error, every rule
\* it read whose weekly flag is set and whose weekday is today's, and every
\* rule whose monthly flag is set and whose day of month is today's, has been
\* materialized for today (it has a marker); and every rule the cycle
\* materialized matches today by one of the two tests.
C21_DueByAnyFlag ==
  \A c \in Slots :
    LET cy == cyc[c]
    IN /\ (cy.pc = "done" /\ cy.errors = <<>>) =>
            \A j \in 1..Len(cy.list) :
              (WeeklyMatch(cy.list[j], cy.today) \/ MonthlyMatch(cy.list[j], cy.today))
              => MarkersFor(cy.list[j].id, cy.today) /= {}
       /\ \A k \in 1..Len(cy.processed) :
            \E j \in 1..Len(cy.list) :
              /\ cy.list[j].id = cy.processed[k].originalId
              /\ WeeklyMatch(cy.list[j], cy.today) \/ MonthlyMatch(cy.list[j], cy.today)

\* ------------------------------------- properties: one materialization
\* The cycle in slot c passes from one statement of a materialization to
\* the next.
Passes(c, from, to) == cyc[c].pc = from /\ cyc'[c].pc = to

\* C22: a successful materialization inserts exactly one transaction (both
\* flags cleared, the rule's amount, pot and user, today's date), then adds
\* exactly the rule's amount to that pot and to no other pot, then writes
\* exactly one marker for (rule, today); the rule's row is never changed,
\* and no materialized transaction is ever a recurring rule.
C22_OneMaterialization ==
  [][\A c \in Slots :
       LET cy == cyc[c]
           rule == cy.list[cy.idx]
       IN /\ Passes(c, "insert", "update") =>
               /\ txs[cy.newId] = NoTx
               /\ txs'[cy.newId] = [user |-> rule.user_id, pot |-> rule.pot_id,
                                    amount |-> rule.amount, date |-> cy.today,
                                    monthly |-> 0, weekly |-> 0]
               /\ \A t \in TxIds \ {cy.newId} : txs'[t] = txs[t]
               /\ pots' = pots /\ markers' = markers
          /\ Passes(c, "update", "markAsProcessed") =>
               /\ \A p \in PotIds :
                    /\ pots'[p].user = pots[p].user
                    /\ pots'[p].total =
                         pots[p].total + (IF p = rule.pot_id THEN rule.amount ELSE 0)
               /\ txs' = txs /\ markers' = markers
          /\ Passes(c, "markAsProcessed", "getRow") =>
               /\ markers' \ markers =
                    {[rule |-> rule.id, date |-> ISODate(cy.today), tx |-> cy.newId]}
               /\ markers \subseteq markers'
               /\ Cardinality(MarkersFor(rule.id, cy.today)') = 1
               /\ txs' = txs /\ pots' = pots
          /\ \A t \in TxIds : origin'[t].rule /= 0 => ~IsRecurring(t)']_vars

\* C22 witness: a cycle has inserted the row, credited the pot and written
\* the marker of a rule of pot 1 while pot 2 holds rules of its own.
C22_Witness ==
  \E c \in Slots :
    /\ cyc[c].pc = "getRow"
    /\ cyc[c].list[cyc[c].idx].pot_id = 1
    /\ origin[cyc[c].newId].credited
    /\ MarkersFor(cyc[c].list[cyc[c].idx].id, cyc[c].today) /= {}
    /\ \E t \in ExistingTx : txs[t].pot = 2

\* ------------------------------------------- properties: the forecaster
Forecast == client.op = "getProjectedRecurringTransactions"

\* Day number of the first day of the month of a date.
FirstOfMonth(date) == DayIndex(NewDate(date.y, date.m, 1, 0))

\* C23: every monthly instance is its rule's anchor plus i calendar months
\* for some i in 1..6 and is not before the first day of the current month;
\* a monthly occurrence that falls in the current month is emitted even when
\* its day has passed (unless another monthly rule of the pot is anchored on
\* that very day); the weekly instances are exactly the anchors plus 7i days,
\* i in 1..26, that are not before the first day of the current month,
\* whatever the ledger holds; every id starts with "projected-".
C23_ForecastCandidates ==
  Forecast =>
    LET tx == client.transactions
        idx == 1..Len(tx)
        first == FirstOfMonth(client.now)
        emitted(kind) == {<<v.id[2], v.id[3], DayIndex(v.date)>> :
                            v \in {x \in client.result : x.id[1] = kind}}
    IN /\ \A v \in client.result :
            /\ v.id[1] \in {"projected-monthly", "projected-weekly"}
            /\ DayIndex(v.date) >= first
       /\ \A v \in {x \in client.result : x.id[1] = "projected-monthly"} :
            \E k \in idx :
              /\ tx[k].id = v.id[2] /\ tx[k].repeatMonthly
              /\ v.id[3] \in 1..MonthlyHorizon
              /\ MonthIndex(v.date) = MonthIndex(tx[k].date) + v.id[3]
              /\ v.date.d = IF tx[k].date.d > DaysInMonth(v.date.y, v.date.m)
                            THEN DaysInMonth(v.date.y, v.date.m) ELSE tx[k].date.d
       /\ \A k \in idx, i \in 1..MonthlyHorizon :
            (/\ tx[k].repeatMonthly
             /\ MonthIndex(tx[k].date) + i = MonthIndex(client.now)
             /\ ~\E t \in idx : /\ tx[t].potId = tx[k].potId /\ tx[t].repeatMonthly
                                /\ MonthIndex(tx[t].date) = MonthIndex(client.now)
                                /\ tx[t].date.d = tx[k].date.d)
            => \E v \in client.result : v.id = <<"projected-monthly", tx[k].id, i>>
       /\ emitted("projected-weekly") =
            {<<tx[q[1]].id, q[2], DayIndex(tx[q[1]].date) + 7 * q[2]>> :
               q \in {r \in {j \in idx : tx[j].repeatWeekly} \X (1..WeeklyHorizon) :
                        DayIndex(tx[r[1]].date) + 7 * r[2] >= first}}

\* C23 witness: on the 20th the forecaster returns the monthly occurrence of
\* the 15th and a weekly occurrence of the 8th of the current month, both in
\* the past.
C23_Witness ==
  /\ Forecast /\ client.now.d = 20
  /\ \E v \in client.result :
       /\ v.id[1] = "projected-monthly"
       /\ v.date.m = client.now.m /\ v.date.d = 15
  /\ \E v \in client.result :
       /\ v.id[1] = "projected-weekly"
       /\ v.date.m = client.now.m /\ v.date.d < 20

\* --------------------------------- properties: contributions and growth
\* C24: every recurring rule of the pot contributes to a projected month
\* under exactly one frequency (its amount once when counted as monthly, or
\* its amount for every matching weekday of the month when counted as
\* weekly) and rules of other pots contribute nothing: without interest, the
\* step from point 1 to point 2 is such a sum.
C24_RulesPartitioned ==
  (/\ Projection /\ client.result.error = ""
   /\ client.monthsAhead >= 2 /\ client.pot.interestRate <= 0)
  => LET tx == client.transactions
         data == client.result.data
         rules == RulesOf(client.pot, tx)
         month == data[3].date
         once == Amounts_(tx)
         perWeekday == [i \in 1..Len(tx) |->
                          tx[i].amount * Cardinality(WeekdaysIn(startOfMonth(month),
                                                                endOfMonth(month),
                                                                getDay(tx[i].date)))]
         both == {i \in rules : tx[i].repeatMonthly /\ tx[i].repeatWeekly}
     IN \E asMonthly \in SUBSET both :
          data[3].amount - data[2].amount =
              Sum(once, {i \in rules : ~tx[i].repeatWeekly} \cup asMonthly)
            + Sum(perWeekday, {i \in rules : ~tx[i].repeatMonthly} \cup (both \ asMonthly))

\* C25: every projected point is the previous point multiplied by the
\* monthly growth multiplier (rounded down to a penny) plus the month's
\* contributions, the contributions being the step the same projection
\* makes without interest.
C25_GrowthBeforeContributions ==
  (Projection /\ client.result.error = "") =>
    LET data == client.result.data
        flat == calculateProjection([client.pot EXCEPT !.interestRate = 0],
                                    client.transactions, client.monthsAhead,
                                    client.currentDate, client.lib).data
        multiplier == IF client.pot.interestRate > 0
                      THEN monthlyGrowthMultiplier(client.pot.interestRate)
                      ELSE 1000
    IN \A k \in 2..Len(data) :
         data[k].amount = (data[k - 1].amount * multiplier) \div 1000
                          + (flat[k].amount - flat[k - 1].amount)

\* C25 witness: a pot at 12% with contributions large enough for the order
\* to show: growth applied after adding them would give another amount.
C25_Witness ==
  /\ Projection /\ client.result.error = ""
  /\ client.pot.interestRate = 12 /\ client.pot.currentTotal = 500
  /\ Len(client.result.data) = 4
  /\ LET data == client.result.data
         flat == calculateProjection([client.pot EXCEPT !.interestRate = 0],
                                     client.transactions, client.monthsAhead,
                                     client.currentDate, client.lib).data
         multiplier == monthlyGrowthMultiplier(12)
     IN \A k \in 2..4 :
          /\ flat[k].amount > flat[k - 1].amount
          /\ data[k].amount /=
               ((data[k - 1].amount + flat[k].amount - flat[k - 1].amount) * multiplier)
               \div 1000

\* ------------------------------------------- properties: PUT /pots/:id
\* C26: a PUT /pots/:id whose body has no currentTotal leaves the pot's
\* currentTotal as it is when its UPDATE runs, whatever ran since its SELECT.
C26_EditKeepsBalance ==
  [][(potEdit /= NoEdit /\ potEdit' = NoEdit /\ listening'
      /\ ~Given(potEdit.currentTotal))
     => pots'[potEdit.pot].total = pots[potEdit.pot].total]_vars

\* ------------------------------------------ properties: pot ownership
\* C27: a request that changes a transaction of one user changes the
\* currentTotal of no pot owned by another user, and afterwards every
\* transaction's pot exists and is owned by the transaction's user.
C27_OwnPotsOnly ==
  [][/\ \A t \in TxIds :
          (txs[t] /= NoTx /\ txs'[t] /= txs[t])
          => \A p \in ExistingPots : pots[p].user /= txs[t].user => pots'[p] = pots[p]
     /\ \A t \in TxIds :
          txs'[t] /= NoTx => /\ txs'[t].pot \in PotIds
                             /\ pots'[txs'[t].pot] /= NoPot
                             /\ pots'[txs'[t].pot].user = txs'[t].user]_vars

\* ------------------------------------- properties: the scheduler's calendar
\* C28: every materialized transaction is dated strictly after the anchor
\* date of its rule.
C28_AfterAnchorOnly ==
  \A t \in ExistingTx :
    origin[t].rule /= 0 => origin[t].day > txs[origin[t].rule].date

\* Number of the calendar month of day n.
MonthOfDay(n) == DateOf(n).y * 12 + DateOf(n).m - 1

\* The calendar months that began after the first day and have ended.
ElapsedMonths ==
  {m \in {MonthOfDay(n) : n \in StartDay..clock} :
     MonthOfDay(StartDay) < m /\ m < MonthOfDay(clock)}

\* C29: when a cycle has run successfully on every day, every monthly rule
\* has exactly one materialized transaction in every elapsed calendar month
\* after its anchor month.
C29_OncePerMonth ==
  \A r \in ExistingTx :
    txs[r].monthly = 1 =>
      \A m \in ElapsedMonths :
        m > MonthOfDay(txs[r].date) =>
          Cardinality({t \in ExistingTx : /\ origin[t].rule = r
                                          /\ MonthOfDay(origin[t].day) = m}) = 1

\* ----------------------------------- properties: start and stop
\* C30: at most one scheduled cron task exists at any time, and no task
\* fires while the scheduler is stopped (schedulerRunning is false).
C30_OneJobAndQuietAfterStop ==
  [][/\ Len(jobs') <= 1
     /\ (listening /\ runs' = runs + 1 /\ ticked' /= ticked) => schedulerRunning]_vars

====
